---- MODULE Spec2Model ----
(***************************************************************************)
(* treer (src/main.rs): list the immediate entries of one directory.       *)
(*                                                                         *)
(* main calls run; run is the pipeline parse_args -> validate_path ->      *)
(* read_directory -> print loop.  Text (arguments, file names, the two     *)
(* output streams) is a sequence of characters; NL is the newline          *)
(* character that println!/eprintln! append.  The filesystem is a map      *)
(* from path strings to objects and may change between any two steps of    *)
(* the program.  Writes to the two output streams are taken to succeed and *)
(* the arguments to be valid Unicode (otherwise println!, eprintln! and    *)
(* env::args panic, which is no state of run).                             *)
(***************************************************************************)
EXTENDS Integers, Sequences, FiniteSets, TLC

\* ------------------------------------------------------------------ bounds
MaxArgs == 3
MaxEntries == 2

\* -------------------------------------------------------------------- text
NL == "\n"
REPLACEMENT == "U+FFFD"
InvalidBytes == {"xFF"}

\* the strings a command-line argument is drawn from
ArgStrings == { <<".">>, <<"d", NL, "e">> }

\* the names a directory entry is drawn from: a hidden name, a name that is
\* not valid UTF-8, a name that contains a newline
FileNames == { <<".", "a">>, <<"b", "xFF">>, <<"c", NL>> }

ArgLists == UNION { [1..n -> ArgStrings] : n \in 0..MaxArgs }

Perms(S) == { s \in [1..Cardinality(S) -> S] :
                \A i, j \in 1..Cardinality(S) : s[i] = s[j] => i = j }

RECURSIVE CountNL(_)
CountNL(s) == IF s = <<>> THEN 0
              ELSE (IF Head(s) = NL THEN 1 ELSE 0) + CountNL(Tail(s))

IsPrefix(s, t) == Len(s) <= Len(t) /\ SubSeq(t, 1, Len(s)) = s

\* -------------------------------------------------------------- filesystem
\* What a path resolves to.  "unsearchable": a parent directory denies
\* search, so even the metadata query is refused.  "dir_noread": a directory
\* without read permission.
DirObjects == { [kind |-> "dir", children |-> c] :
                  c \in { s \in SUBSET FileNames : Cardinality(s) <= MaxEntries } }
FsObjects == { [kind |-> "absent"], [kind |-> "file"], [kind |-> "unsearchable"],
               [kind |-> "dir_noread"] } \cup DirObjects

IoError(kind) ==
    [kind |-> kind,
     msg  |-> CASE kind = "NotFound"         -> <<"No such file or directory (os error 2)">>
                [] kind = "PermissionDenied" -> <<"Permission denied (os error 13)">>
                [] kind = "NotADirectory"    -> <<"Not a directory (os error 20)">>
                [] OTHER                     -> <<"Input/output error (os error 5)">>]

\* fs::metadata(path)
Metadata(fsys, p) ==
    CASE fsys[p.inner].kind = "absent"       -> [ok |-> FALSE, err |-> IoError("NotFound")]
      [] fsys[p.inner].kind = "unsearchable" -> [ok |-> FALSE, err |-> IoError("PermissionDenied")]
      [] fsys[p.inner].kind = "file"         -> [ok |-> TRUE, is_dir |-> FALSE]
      [] OTHER                               -> [ok |-> TRUE, is_dir |-> TRUE]

\* fs::read_dir(path): opening the directory stream
OpenDir(fsys, p) ==
    CASE fsys[p.inner].kind = "absent"       -> [ok |-> FALSE, err |-> IoError("NotFound")]
      [] fsys[p.inner].kind = "file"         -> [ok |-> FALSE, err |-> IoError("NotADirectory")]
      [] fsys[p.inner].kind = "unsearchable" -> [ok |-> FALSE, err |-> IoError("PermissionDenied")]
      [] fsys[p.inner].kind = "dir_noread"   -> [ok |-> FALSE, err |-> IoError("PermissionDenied")]
      [] OTHER                               -> [ok |-> TRUE]

\* ---------------------------------------------------------------- AppError
InvalidArgs == [tag |-> "InvalidArgs"]
PathNotFound(p) == [tag |-> "PathNotFound", path |-> p]
NotADirectory(p) == [tag |-> "NotADirectory", path |-> p]
PermissionDenied(p) == [tag |-> "PermissionDenied", path |-> p]
Io(e) == [tag |-> "Io", e |-> e]

\* impl From<io::Error> for AppError
FromIoError(e) == Io(e)

Ok(v) == [ok |-> TRUE, val |-> v]
Err(e) == [ok |-> FALSE, err |-> e]

\* PathBuf::from(&String), Path::to_path_buf and Path::display
PathBufFrom(s) == [inner |-> s]
ToStringLossy(bytes) ==
    [i \in 1..Len(bytes) |-> IF bytes[i] \in InvalidBytes THEN REPLACEMENT ELSE bytes[i]]
PathDisplay(p) == ToStringLossy(p.inner)

\* Variant: the plain rendering that leaves the path out.
Display_NoPath(e) ==
    CASE e.tag = "InvalidArgs"      -> <<"invalid arguments">>
      [] e.tag = "PathNotFound"     -> <<"path not found">>
      [] e.tag = "NotADirectory"    -> <<"not a directory">>
      [] e.tag = "PermissionDenied" -> <<"permission denied">>
      [] e.tag = "Io"               -> <<"I/O error: ">> \o e.e.msg

\* impl fmt::Display for AppError
Display(e) ==
    CASE e.tag = "InvalidArgs"      -> <<"invalid arguments">>
      [] e.tag = "PathNotFound"     -> <<"path not found: ">> \o PathDisplay(e.path)
      [] e.tag = "NotADirectory"    -> <<"not a directory: ">> \o PathDisplay(e.path)
      [] e.tag = "PermissionDenied" -> <<"permission denied: ">> \o PathDisplay(e.path)
      [] e.tag = "Io"               -> <<"I/O error: ">> \o e.e.msg

\* println!("{}", text) / eprintln!("{}", text) on a stream
Println(out, text) == out \o text \o <<NL>>

\* --------------------------------------------------------------- functions
\* Variant: the path is taken from element zero, the program name.
parse_args_FirstElement(a) ==
    IF Len(a) = 2 THEN Ok(PathBufFrom(a[1])) ELSE Err(InvalidArgs)

\* args[1] of the source is a[2] here: sequences start at 1
parse_args(a) ==
    IF Len(a) = 2 THEN Ok(PathBufFrom(a[2])) ELSE Err(InvalidArgs)

\* Variant: the is_dir test is missing.
validate_path_NoDirCheck(fsys, p) ==
    LET metadata == Metadata(fsys, p) IN
    IF ~metadata.ok
    THEN IF metadata.err.kind = "NotFound" THEN Err(PathNotFound(p))
         ELSE Err(Io(metadata.err))
    ELSE Ok(<<>>)

validate_path(fsys, p) ==
    LET metadata == Metadata(fsys, p) IN
    IF ~metadata.ok
    THEN IF metadata.err.kind = "NotFound" THEN Err(PathNotFound(p))
         ELSE Err(Io(metadata.err))
    ELSE IF ~metadata.is_dir THEN Err(NotADirectory(p))
    ELSE Ok(<<>>)

\* fs::DirEntry and DirEntry::file_name
DirEntry(p, name) == [dir |-> p, name |-> name]
file_name(entry) == entry.name

\* The items the ReadDir iterator yields: the children in the order `order`,
\* except that call number failAt (0: none) returns an error instead.
ReadDirItems(p, order, failAt) ==
    [i \in 1..(IF failAt = 0 THEN Len(order) ELSE failAt) |->
        IF i = failAt THEN Err(IoError("Other")) ELSE Ok(DirEntry(p, order[i]))]

\* .map(|res| res.map_err(AppError::from))
MapErrFrom(items) ==
    [i \in 1..Len(items) |->
        IF items[i].ok THEN items[i] ELSE Err(FromIoError(items[i].err))]

\* Iterator::collect::<Result<Vec<_>, _>>(): the values up to the first Err,
\* and that Err alone if there is one
RECURSIVE Collect(_, _)
Collect(items, acc) ==
    IF items = <<>> THEN Ok(acc)
    ELSE IF ~Head(items).ok THEN Err(Head(items).err)
    ELSE Collect(Tail(items), Append(acc, Head(items).val))

\* how many items collect took from the iterator
RECURSIVE Consumed(_)
Consumed(items) ==
    IF items = <<>> THEN 0
    ELSE IF ~Head(items).ok THEN 1
    ELSE 1 + Consumed(Tail(items))

\* Variant: every failure to open the stream becomes the generic Io error.
read_directory_NoPermissionCase(fsys, p, order, failAt) ==
    LET opened == OpenDir(fsys, p) IN
    IF ~opened.ok
    THEN Err(Io(opened.err))
    ELSE Collect(MapErrFrom(ReadDirItems(p, order, failAt)), <<>>)

\* Variant: entries whose name starts with a dot are filtered out.
read_directory_SkipHidden(fsys, p, order, failAt) ==
    LET opened == OpenDir(fsys, p) IN
    IF ~opened.ok
    THEN IF opened.err.kind = "PermissionDenied" THEN Err(PermissionDenied(p))
         ELSE Err(Io(opened.err))
    ELSE Collect(MapErrFrom(ReadDirItems(p,
                    SelectSeq(order, LAMBDA n : Head(n) # "."), failAt)), <<>>)

read_directory(fsys, p, order, failAt) ==
    LET opened == OpenDir(fsys, p) IN
    IF ~opened.ok
    THEN IF opened.err.kind = "PermissionDenied" THEN Err(PermissionDenied(p))
         ELSE Err(Io(opened.err))
    ELSE Collect(MapErrFrom(ReadDirItems(p, order, failAt)), <<>>)

\* ------------------------------------------------------------------- state
VARIABLES
    args,     \* env::args(), element 1 is the program name
    fs,       \* the filesystem: path string -> object
    pc,       \* the stage run has reached
    mainpc,   \* main: "running" until run has returned and been reported
    path,     \* run's `path`: <<>> before parse_args, then <<PathBuf>>
    err,      \* the Err run returned: <<>> or <<AppError>>
    stream,   \* the ReadDir stream: how it was opened and the items taken
    entries,  \* run's `entries`
    idx,      \* how many entries the for loop has printed
    stdout,
    stderr,
    calls     \* the stage functions run has called, with their outcome

vars == <<args, fs, pc, mainpc, path, err, stream, entries, idx, stdout, stderr, calls>>

Init ==
    /\ args \in ArgLists
    /\ fs \in [ArgStrings -> FsObjects]
    /\ pc = "Start"
    /\ mainpc = "running"
    /\ path = <<>>
    /\ err = <<>>
    /\ stream = [open |-> "unopened", items |-> <<>>]
    /\ entries = <<>>
    /\ idx = 0
    /\ stdout = <<>>
    /\ stderr = <<>>
    /\ calls = <<>>

\* let path = parse_args(&args)?;
ParseArgs ==
    /\ pc = "Start"
    /\ LET r == parse_args(args) IN
       /\ calls' = Append(calls, [stage |-> "parse", ok |-> r.ok])
       /\ IF r.ok
          THEN /\ path' = <<r.val>>
               /\ pc' = "Parsed"
               /\ err' = err
          ELSE /\ err' = <<r.err>>
               /\ pc' = "Failed"
               /\ path' = path
    /\ UNCHANGED <<args, fs, mainpc, stream, entries, idx, stdout, stderr>>

\* Variant: the error of validate_path is dropped and the run goes on.
ValidatePath_IgnoreError ==
    /\ pc = "Parsed"
    /\ LET r == validate_path(fs, path[1]) IN
       calls' = Append(calls, [stage |-> "validate", ok |-> r.ok])
    /\ pc' = "Validated"
    /\ UNCHANGED <<args, fs, mainpc, path, err, stream, entries, idx, stdout, stderr>>

\* validate_path(&path)?;
ValidatePath ==
    /\ pc = "Parsed"
    /\ LET r == validate_path(fs, path[1]) IN
       /\ calls' = Append(calls, [stage |-> "validate", ok |-> r.ok])
       /\ IF r.ok
          THEN /\ pc' = "Validated"
               /\ err' = err
          ELSE /\ err' = <<r.err>>
               /\ pc' = "Failed"
    /\ UNCHANGED <<args, fs, mainpc, path, stream, entries, idx, stdout, stderr>>

\* Names of the entries among the first items of a stream, as println! writes them.
RECURSIVE PrintAll(_, _)
PrintAll(out, es) ==
    IF es = <<>> THEN out
    ELSE PrintAll(Println(out, ToStringLossy(file_name(Head(es)))), Tail(es))

OkValues(items) ==
    LET oks == SelectSeq(items, LAMBDA it : it.ok) IN
    [i \in 1..Len(oks) |-> oks[i].val]

\* Variant: a streaming reader that prints every name as soon as it is read.
ReadDirectoryWith_Streaming(order, failAt) ==
    LET r == read_directory(fs, path[1], order, failAt)
        opened == OpenDir(fs, path[1])
        items == ReadDirItems(path[1], order, failAt)
    IN
    /\ calls' = Append(calls, [stage |-> "read", ok |-> r.ok])
    /\ stream' = IF opened.ok
                 THEN [open |-> "ok", items |-> SubSeq(items, 1, Consumed(items))]
                 ELSE [open |-> "failed", items |-> <<>>]
    /\ IF r.ok
       THEN /\ entries' = r.val
            /\ pc' = "Enumerated"
            /\ err' = err
            /\ stdout' = PrintAll(stdout, r.val)
            /\ idx' = Len(r.val)
       ELSE /\ err' = <<r.err>>
            /\ pc' = "Failed"
            /\ entries' = entries
            /\ stdout' = IF opened.ok THEN PrintAll(stdout, OkValues(items)) ELSE stdout
            /\ idx' = idx
    /\ UNCHANGED <<args, fs, mainpc, path, stderr>>

\* Variant: a failed read ends the enumeration with the entries read so far.
ReadDirectoryWith_Partial(order, failAt) ==
    LET r == read_directory(fs, path[1], order, failAt)
        opened == OpenDir(fs, path[1])
        items == ReadDirItems(path[1], order, failAt)
    IN
    /\ calls' = Append(calls, [stage |-> "read", ok |-> opened.ok])
    /\ stream' = IF opened.ok
                 THEN [open |-> "ok", items |-> SubSeq(items, 1, Consumed(items))]
                 ELSE [open |-> "failed", items |-> <<>>]
    /\ IF opened.ok
       THEN /\ entries' = OkValues(items)
            /\ pc' = "Enumerated"
            /\ err' = err
       ELSE /\ err' = <<r.err>>
            /\ pc' = "Failed"
            /\ entries' = entries
    /\ UNCHANGED <<args, fs, mainpc, path, idx, stdout, stderr>>

ReadDirectoryWith(order, failAt) ==
    LET r == read_directory(fs, path[1], order, failAt)
        opened == OpenDir(fs, path[1])
        items == ReadDirItems(path[1], order, failAt)
    IN
    /\ calls' = Append(calls, [stage |-> "read", ok |-> r.ok])
    /\ stream' = IF opened.ok
                 THEN [open |-> "ok", items |-> SubSeq(items, 1, Consumed(items))]
                 ELSE [open |-> "failed", items |-> <<>>]
    /\ IF r.ok
       THEN /\ entries' = r.val
            /\ pc' = "Enumerated"
            /\ err' = err
       ELSE /\ err' = <<r.err>>
            /\ pc' = "Failed"
            /\ entries' = entries
    /\ UNCHANGED <<args, fs, mainpc, path, idx, stdout, stderr>>

\* let entries = read_directory(&path)?;
\* The operating system chooses the order of the children and whether one of
\* the reads (or the read that finds the end of the directory) fails.
ReadDirectory ==
    /\ pc = "Validated"
    /\ LET children == IF fs[path[1].inner].kind = "dir"
                       THEN fs[path[1].inner].children ELSE {} IN
       \E order \in Perms(children) :
         \E failAt \in 0..(Len(order) + 1) :
            ReadDirectoryWith(order, failAt)

\* Variant: the loop walks the entries from the last to the first.
PrintEntry_Reversed ==
    /\ pc = "Enumerated"
    /\ idx < Len(entries)
    /\ stdout' = Println(stdout, ToStringLossy(file_name(entries[Len(entries) - idx])))
    /\ idx' = idx + 1
    /\ UNCHANGED <<args, fs, pc, mainpc, path, err, stream, entries, stderr, calls>>

\* one iteration of: for entry in entries { println!(...) }
PrintEntry ==
    /\ pc = "Enumerated"
    /\ idx < Len(entries)
    /\ stdout' = Println(stdout, ToStringLossy(file_name(entries[idx + 1])))
    /\ idx' = idx + 1
    /\ UNCHANGED <<args, fs, pc, mainpc, path, err, stream, entries, stderr, calls>>

\* the loop is over: Ok(())
RunOk ==
    /\ pc = "Enumerated"
    /\ idx = Len(entries)
    /\ pc' = "Done"
    /\ UNCHANGED <<args, fs, mainpc, path, err, stream, entries, idx, stdout, stderr, calls>>

\* main: if let Err(e) = run() { eprintln!("{}", e); }
MainReport ==
    /\ mainpc = "running"
    /\ pc = "Failed"
    /\ stderr' = Println(stderr, Display(err[1]))
    /\ mainpc' = "exited"
    /\ UNCHANGED <<args, fs, pc, path, err, stream, entries, idx, stdout, calls>>

\* main: run() returned Ok(()), nothing to report
MainExit ==
    /\ mainpc = "running"
    /\ pc = "Done"
    /\ mainpc' = "exited"
    /\ UNCHANGED <<args, fs, pc, path, err, stream, entries, idx, stdout, stderr, calls>>

\* Another process changes what a path resolves to while the program runs;
\* nothing in run locks the directory between validate_path and read_directory.
FsChange ==
    /\ mainpc = "running"
    /\ \E p \in ArgStrings, obj \in FsObjects :
          /\ fs[p] # obj
          /\ fs' = [fs EXCEPT ![p] = obj]
    /\ UNCHANGED <<args, pc, mainpc, path, err, stream, entries, idx, stdout, stderr, calls>>

Next ==
    \/ ParseArgs
    \/ ValidatePath
    \/ ReadDirectory
    \/ PrintEntry
    \/ RunOk
    \/ MainReport
    \/ MainExit
    \/ FsChange

Spec == Init /\ [][Next]_vars

\* ================================================================== claims
\* The names of a sequence of entries, and the text println! makes of them.
NamesOf(es) == [i \in 1..Len(es) |-> file_name(es[i])]

RECURSIVE Concat(_)
Concat(lines) == IF lines = <<>> THEN <<>> ELSE Head(lines) \o <<NL>> \o Concat(Tail(lines))

\* The newline-terminated lines of a stream.
RECURSIVE SplitLines(_, _)
SplitLines(s, cur) ==
    IF s = <<>> THEN <<>>
    ELSE IF Head(s) = NL THEN <<cur>> \o SplitLines(Tail(s), <<>>)
    ELSE SplitLines(Tail(s), Append(cur, Head(s)))

HasNL(text) == \E i \in 1..Len(text) : text[i] = NL

\* C1: parse_args succeeds iff the argument list has exactly two elements; it
\* then returns the second element, unmodified, as the path; for every other
\* length (0, 1, 3 or more) it fails with InvalidArgs.
C1_ParseArgsArity ==
    calls # <<>> =>
        IF Len(args) = 2
        THEN /\ calls[1] = [stage |-> "parse", ok |-> TRUE]
             /\ path = <<[inner |-> args[2]]>>
             /\ (Len(calls) = 1 => pc = "Parsed" /\ err = <<>>)
        ELSE /\ calls = <<[stage |-> "parse", ok |-> FALSE]>>
             /\ pc = "Failed"
             /\ err = <<[tag |-> "InvalidArgs"]>>
             /\ path = <<>>

C1_Witness ==
    /\ pc = "Parsed"
    /\ Len(args) = 2
    /\ args[1] # args[2]
    /\ path = <<[inner |-> args[2]]>>

\* C2: the step of validate_path is decided by the one metadata query: a
\* NotFound failure gives PathNotFound(path), any other failure gives Io with
\* that error, a non-directory gives NotADirectory(path), and it succeeds
\* exactly when the query succeeds on a directory.
C2_ValidatePath ==
    [][ (pc = "Parsed" /\ pc' # "Parsed") =>
          LET m == Metadata(fs, path[1]) IN
          /\ (~m.ok /\ m.err.kind = "NotFound") =>
                pc' = "Failed" /\ err' = <<[tag |-> "PathNotFound", path |-> path[1]]>>
          /\ (~m.ok /\ m.err.kind # "NotFound") =>
                pc' = "Failed" /\ err' = <<[tag |-> "Io", e |-> m.err]>>
          /\ (m.ok /\ ~m.is_dir) =>
                pc' = "Failed" /\ err' = <<[tag |-> "NotADirectory", path |-> path[1]]>>
          /\ (m.ok /\ m.is_dir) => pc' = "Validated" /\ err' = <<>>
          /\ pc' = "Validated" <=> (m.ok /\ m.is_dir)
          /\ pc' \in {"Validated", "Failed"}
      ]_vars

C2_Witness ==
    /\ pc = "Failed"
    /\ Len(calls) = 2
    /\ err = <<[tag |-> "NotADirectory", path |-> [inner |-> args[2]]]>>
    /\ fs[args[2]].kind = "file"

\* C3: when read_directory succeeds, the names of the returned entries are
\* exactly the children the directory has at that moment: each once, none
\* invented, none filtered (hidden, non-UTF-8 and odd names alike), as many
\* as there are children, none for an empty directory; in any order.
C3_ReadDirectoryExact ==
    [][ (pc = "Validated" /\ pc' = "Enumerated") =>
          LET children == fs[path[1].inner].children
              names == NamesOf(entries')
          IN
          /\ { names[i] : i \in 1..Len(names) } = children
          /\ Len(names) = Cardinality(children)
          /\ \A i, j \in 1..Len(names) : names[i] = names[j] => i = j
          /\ (children = {} => entries' = <<>>)
          /\ \A i \in 1..Len(names) : entries'[i].dir = path[1]
      ]_vars

C3_Witness ==
    /\ pc = "Enumerated"
    /\ Len(entries) = MaxEntries
    /\ \E i \in 1..Len(entries) : Head(file_name(entries[i])) = "."
    /\ \E i \in 1..Len(entries) : \E k \in 1..Len(file_name(entries[i])) :
          file_name(entries[i])[k] \in InvalidBytes

\* C4: read_directory fails with PermissionDenied(path) when opening the
\* stream is refused for lack of permission, with Io when opening fails for
\* any other cause, and with Io when the read of an entry fails; in that
\* last case no entry is returned and nothing further is read from the stream.
C4_ReadDirectoryErrors ==
    [][ (pc = "Validated" /\ pc' # "Validated") =>
          LET o == OpenDir(fs, path[1])
              n == Len(stream'.items)
          IN
          /\ (~o.ok /\ o.err.kind = "PermissionDenied") =>
                /\ pc' = "Failed"
                /\ err' = <<[tag |-> "PermissionDenied", path |-> path[1]]>>
          /\ (~o.ok /\ o.err.kind # "PermissionDenied") =>
                pc' = "Failed" /\ err' = <<[tag |-> "Io", e |-> o.err]>>
          /\ ~o.ok => stream' = [open |-> "failed", items |-> <<>>]
          /\ o.ok => stream'.open = "ok"
          /\ (o.ok /\ \E i \in 1..n : ~stream'.items[i].ok) =>
                /\ pc' = "Failed"
                /\ err' = <<[tag |-> "Io", e |-> stream'.items[n].err]>>
                /\ \A i \in 1..(n - 1) : stream'.items[i].ok
          /\ pc' = "Failed" => entries' = <<>>
      ]_vars

C4_Witness ==
    /\ pc = "Failed"
    /\ stream.open = "ok"
    /\ Len(stream.items) = 2
    /\ stream.items[1].ok
    /\ ~stream.items[2].ok
    /\ fs[path[1].inner].kind = "dir"
    /\ Cardinality(fs[path[1].inner].children) = 2
    /\ err[1].tag = "Io"
    /\ entries = <<>>

\* ---------------------------------------------------------------- pipeline
StageOrder == <<"parse", "validate", "read">>

\* the AppError variants each stage can return
StageErrors(stage) ==
    CASE stage = "parse"    -> {"InvalidArgs"}
      [] stage = "validate" -> {"PathNotFound", "NotADirectory", "Io"}
      [] stage = "read"     -> {"PermissionDenied", "Io"}

ForwardEdges == { <<"Start", "Parsed">>, <<"Parsed", "Validated">>,
                  <<"Validated", "Enumerated">>, <<"Enumerated", "Done">> }
FailEdges == { <<s, "Failed">> : s \in {"Start", "Parsed", "Validated", "Enumerated"} }

C5_StageInvariant ==
    /\ pc \in {"Start", "Parsed", "Validated", "Enumerated", "Done", "Failed"}
    /\ Len(calls) <= 3
    /\ \A i \in 1..Len(calls) : calls[i].stage = StageOrder[i]
    /\ \A i \in 1..(Len(calls) - 1) : calls[i].ok
    /\ pc = "Failed" <=> (calls # <<>> /\ ~calls[Len(calls)].ok)
    /\ pc = "Start" <=> calls = <<>>
    /\ pc = "Parsed" => Len(calls) = 1
    /\ pc = "Validated" => Len(calls) = 2
    /\ pc \in {"Enumerated", "Done"} => Len(calls) = 3
    /\ IF pc = "Failed"
       THEN Len(err) = 1 /\ err[1].tag \in StageErrors(calls[Len(calls)].stage)
       ELSE err = <<>>
    /\ stream.open # "unopened" <=> Len(calls) = 3
    /\ idx <= Len(entries)
    /\ (idx > 0 \/ stdout # <<>> \/ entries # <<>>) => pc \in {"Enumerated", "Done"}
    /\ pc = "Done" => idx = Len(entries)

C5_StageStep ==
    /\ pc' # pc => <<pc, pc'>> \in ForwardEdges \cup FailEdges
    /\ pc = "Failed" =>
          /\ pc' = "Failed"
          /\ <<err, calls, stream, entries, idx, stdout, path>>' =
             <<err, calls, stream, entries, idx, stdout, path>>
    /\ pc = "Done" => pc' = "Done" /\ stdout' = stdout /\ calls' = calls
    /\ (pc = "Start" /\ pc' = "Failed") => err' = <<parse_args(args).err>>
    /\ (pc = "Parsed" /\ pc' = "Failed") => err' = <<validate_path(fs, path[1]).err>>
    /\ idx' \in {idx, idx + 1}

\* C5: a run moves only forward through Start, Parsed, Validated, Enumerated,
\* Done; Failed is absorbing; each stage runs at most once and only after all
\* earlier stages succeeded; the first failing stage sends the run to Failed
\* with its own error, after which nothing is executed or retried (the
\* directory is never read for a path that failed validation).
C5_ForwardOnly == []C5_StageInvariant /\ [][C5_StageStep]_vars

C5_Witness ==
    /\ pc = "Failed"
    /\ mainpc = "exited"
    /\ Len(calls) = 2
    /\ stream.open = "unopened"
    /\ err[1].tag = "PathNotFound"

\* the run can fail in its next step
ToFailed == Next /\ pc # "Failed" /\ pc' = "Failed"

\* C6 as stated, for the state Enumerated: a run in Enumerated can go to
\* Failed in its next step.
C6_FailedFromEnumerated == pc = "Enumerated" => ENABLED ToFailed

\* C6 (amended): Failed can be the next step from Start (whenever the
\* argument count is not two), from Parsed (whenever the path is not a
\* directory that can be queried) and from every Validated state (validation
\* holds no lock: the read can still fail), but from no Enumerated state:
\* once read_directory has returned the entries, run cannot fail.
C6_FailedFromStartParsedValidated ==
    /\ pc = "Start" => (ENABLED ToFailed <=> Len(args) # 2)
    /\ pc = "Parsed" => (ENABLED ToFailed <=> fs[path[1].inner].kind \in {"absent", "file", "unsearchable"})
    /\ pc = "Validated" => ENABLED ToFailed
    /\ pc = "Enumerated" => ~ENABLED ToFailed

\* validation succeeded, the directory was then removed, the read failed
C6_Witness ==
    /\ pc = "Failed"
    /\ Len(calls) = 3
    /\ calls[2].ok
    /\ stream.open = "failed"
    /\ err[1].tag = "Io"
    /\ err[1].e.kind = "NotFound"

\* ------------------------------------------------------------------ output
\* C7 as stated: on success standard output has exactly one newline-
\* terminated line per entry, in the order of the entries.
C7_OneLinePerEntry ==
    pc = "Done" =>
        /\ SplitLines(stdout, <<>>) = [i \in 1..Len(entries) |-> ToStringLossy(file_name(entries[i]))]
        /\ CountNL(stdout) = Len(entries)

\* C7 (amended): while and after run prints, standard output is, for each
\* entry printed so far and in the order of the returned sequence, the lossy
\* text of its name followed by one newline: nothing skipped, repeated,
\* reordered or sorted, all entries once the run is Done (nothing for an
\* empty directory).  The lines equal the entries when no name contains a
\* newline character.
C7_OneRecordPerEntry ==
    pc \in {"Enumerated", "Done"} =>
        LET texts == [i \in 1..idx |-> ToStringLossy(file_name(entries[i]))] IN
        /\ stdout = Concat(texts)
        /\ pc = "Done" => idx = Len(entries)
        /\ (\A i \in 1..idx : ~HasNL(texts[i])) =>
              SplitLines(stdout, <<>>) = texts /\ CountNL(stdout) = idx

C7_Witness ==
    /\ pc = "Done"
    /\ Len(entries) = MaxEntries
    /\ ~HasNL(file_name(entries[1]))
    /\ HasNL(file_name(entries[2]))

\* the five renderings of an AppError
C8_Message(e) ==
    CASE e.tag = "InvalidArgs"      -> <<"invalid arguments">>
      [] e.tag = "PathNotFound"     -> <<"path not found: ">> \o e.path.inner
      [] e.tag = "NotADirectory"    -> <<"not a directory: ">> \o e.path.inner
      [] e.tag = "PermissionDenied" -> <<"permission denied: ">> \o e.path.inner
      [] e.tag = "Io"               -> <<"I/O error: ">> \o e.e.msg

\* C8 as stated: at most one line is ever on the error stream: the rendering
\* of the error when the run failed, nothing when it succeeded.
C8_AtMostOneLine ==
    /\ CountNL(stderr) <= 1
    /\ (mainpc = "exited" /\ pc = "Failed") => stderr = C8_Message(err[1]) \o <<NL>>
    /\ pc # "Failed" => stderr = <<>>

\* C8 (amended): at most one message is ever written to the error stream:
\* when the run has failed and main has reported it, the stream holds
\* exactly the rendering of the error that stopped the pipeline followed by
\* one newline; otherwise it is empty (always so for a run that succeeds).
\* The message is a single line when the path in it contains no newline.
C8_AtMostOneMessage ==
    /\ (mainpc = "exited" /\ pc = "Failed") => stderr = C8_Message(err[1]) \o <<NL>>
    /\ ~(mainpc = "exited" /\ pc = "Failed") => stderr = <<>>
    /\ (path # <<>> /\ ~HasNL(path[1].inner)) => CountNL(stderr) <= 1
    /\ path = <<>> => CountNL(stderr) <= 1

C8_Witness ==
    /\ mainpc = "exited"
    /\ pc = "Failed"
    /\ err[1].tag = "PermissionDenied"
    /\ stderr = <<"permission denied: ">> \o args[2] \o <<NL>>

\* the names read from the stream before it failed, as printed lines
ReadSoFar == Concat([i \in 1..Len(OkValues(stream.items)) |->
                        ToStringLossy(file_name(OkValues(stream.items)[i]))])

MidEnumerationFailure ==
    /\ pc = "Failed"
    /\ stream.open = "ok"
    /\ Len(stream.items) >= 2

C10_AllOrNothing ==
    /\ pc = "Failed" => stdout = <<>>
    /\ stdout # <<>> =>
          /\ pc \in {"Enumerated", "Done"}
          /\ stream.open = "ok"
          /\ \A i \in 1..Len(stream.items) : stream.items[i].ok
          /\ entries = OkValues(stream.items)
          /\ calls[3].ok
          /\ ~ENABLED ToFailed

\* the read of the last entry failed: nothing was printed
C10_Witness ==
    /\ pc = "Failed"
    /\ mainpc = "exited"
    /\ stream.open = "ok"
    /\ Len(stream.items) = MaxEntries
    /\ ~stream.items[MaxEntries].ok
    /\ stdout = <<>>

====
